---- MODULE Spec2Model ----
(***************************************************************************)
(* Model of the AI Mental Health Journal Assistant: the Streamlit front    *)
(* end (src/GUI_streamlit.py) and the command-line loop (src/app.py).      *)
(*                                                                         *)
(* Texts are TLA+ strings.  A TLA+ string literal cannot hold the          *)
(* character U+0060 (backtick), so the model writes that one character as  *)
(* "^" (Backtick); every other character stands for itself.                *)
(*                                                                         *)
(* Python values are records tagged with the Python type name, so that     *)
(* values of different types can be compared.                              *)
(***************************************************************************)
EXTENDS Integers, Sequences, FiniteSets, TLC

\* ------------------------------------------------------------------------
\* Bounds of the model
\* ------------------------------------------------------------------------
MaxHist == 2
MaxActions == 3
MaxClock == 1
MaxLines == 3
MaxInner == 5

\* ------------------------------------------------------------------------
\* Python values
\* ------------------------------------------------------------------------
None == [type |-> "NoneType"]
PyBool(b) == [type |-> "bool", b |-> b]
PyInt(n) == [type |-> "int", n |-> n]
PyFloat(r) == [type |-> "float", repr |-> r]
PyStr(s) == [type |-> "str", s |-> s]
PyList(a) == [type |-> "list", items |-> a]
PyDict(d) == [type |-> "dict", d |-> d]

\* bool(v): what `if v:` tests
Truthy(v) ==
  CASE v.type = "NoneType" -> FALSE
    [] v.type = "bool" -> v.b
    [] v.type = "int" -> v.n # 0
    [] v.type = "float" -> TRUE
    [] v.type = "str" -> Len(v.s) > 0
    [] v.type = "list" -> Len(v.items) > 0
    [] v.type = "dict" -> DOMAIN v.d # {}

\* ------------------------------------------------------------------------
\* Text helpers
\* ------------------------------------------------------------------------
Backtick == "^"
Fence == Backtick \o Backtick \o Backtick
FenceJson == Fence \o "json"

Char(s, i) == SubSeq(s, i, i)
StartsWithAt(s, i, p) ==
  /\ i + Len(p) - 1 <= Len(s)
  /\ SubSeq(s, i, i + Len(p) - 1) = p

\* p in s, for two str
IsSubstring(p, s) == \E i \in 1..(Len(s) + 1) : StartsWithAt(s, i, p)

\* least (greatest) member of a set of indices; d when it is empty
MinOr(c, d) == IF c = {} THEN d ELSE CHOOSE j \in c : \A k \in c : j <= k
MaxOr(c, d) == IF c = {} THEN d ELSE CHOOSE j \in c : \A k \in c : j >= k

\* index of the first character of s at or after i that is in (not in)
\* chars; Len(s) + 1 when there is none
FirstIn(s, i, chars) ==
  MinOr({j \in i..Len(s) : Char(s, j) \in chars}, Len(s) + 1)

FirstNotIn(s, i, chars) ==
  MinOr({j \in i..Len(s) : Char(s, j) \notin chars}, Len(s) + 1)

\* index of the last character of s that is not in chars; 0 when none
LastNotIn(s, chars) ==
  MaxOr({j \in 1..Len(s) : Char(s, j) \notin chars}, 0)

\* str.strip(): the whitespace characters of the model's alphabet
StripChars == {" ", "\n", "\t", "\r"}

lstrip(s) == SubSeq(s, FirstNotIn(s, 1, StripChars), Len(s))
rstrip(s) == SubSeq(s, 1, LastNotIn(s, StripChars))
strip(s) == rstrip(lstrip(s))

\* str.lower() on the letters of the model's alphabet
UpperLetters == {"E", "X", "I", "T"}
LowerOf(c) ==
  CASE c = "E" -> "e" [] c = "X" -> "x" [] c = "I" -> "i" [] c = "T" -> "t"
    [] OTHER -> c

RECURSIVE lower_from(_, _)
lower_upto(s, i, j) ==
  IF j > Len(s) THEN SubSeq(s, i, Len(s))
  ELSE SubSeq(s, i, j - 1) \o LowerOf(Char(s, j)) \o lower_from(s, j + 1)

lower_from(s, i) == lower_upto(s, i, FirstIn(s, i, UpperLetters))

lower(s) == lower_from(s, 1)

\* re.sub(r"```json|```", "", s): scan left to right for the next match; at
\* a position the first alternative is tried before the second; the match
\* is dropped and the scan resumes after it; the rest is copied.
\* (variant: the alternatives in the order ```|```json, so that the first
\* always wins and "json" is left behind)
RECURSIVE re_sub_swapped_from(_, _)
re_sub_swapped_match(s, i, j) ==
  IF j > Len(s) THEN SubSeq(s, i, Len(s))
  ELSE SubSeq(s, i, j - 1) \o re_sub_swapped_from(s, j + Len(Fence))

re_sub_swapped_from(s, i) ==
  re_sub_swapped_match(s, i,
    MinOr({j \in i..Len(s) : StartsWithAt(s, j, Fence)}, Len(s) + 1))

re_sub_swapped(s) == re_sub_swapped_from(s, 1)

RECURSIVE re_sub_from(_, _)
re_sub_match(s, i, j) ==
  IF j > Len(s) THEN SubSeq(s, i, Len(s))
  ELSE IF StartsWithAt(s, j, FenceJson)
       THEN SubSeq(s, i, j - 1) \o re_sub_from(s, j + Len(FenceJson))
       ELSE SubSeq(s, i, j - 1) \o re_sub_from(s, j + Len(Fence))

re_sub_from(s, i) ==
  re_sub_match(s, i, MinOr({j \in i..Len(s) : StartsWithAt(s, j, Fence)}, Len(s) + 1))

re_sub_fences(s) == re_sub_from(s, 1)

\* ------------------------------------------------------------------------
\* json.loads (strict), on the JSON the model's alphabet can spell:
\* objects, arrays, strings with the escapes \" \\ \/ \n \t, integers,
\* true, false, null, NaN, Infinity, -Infinity.  A result is
\* [ok, value, end]: end is the index after the parsed text.
\* ------------------------------------------------------------------------
JsonWhitespace == {" ", "\t", "\n", "\r"}
Digits == {"0", "1", "2", "3", "4", "5", "6", "7", "8", "9"}
ControlChars == {"\n", "\t", "\r"}

DigitValue(c) ==
  CASE c = "0" -> 0 [] c = "1" -> 1 [] c = "2" -> 2 [] c = "3" -> 3
    [] c = "4" -> 4 [] c = "5" -> 5 [] c = "6" -> 6 [] c = "7" -> 7
    [] c = "8" -> 8 [] c = "9" -> 9

JsonFail == [ok |-> FALSE, value |-> None, end |-> 0]
JsonOk(v, e) == [ok |-> TRUE, value |-> v, end |-> e]

skip_ws(s, i) == FirstNotIn(s, i, JsonWhitespace)

\* py_scanstring: i is the index after the opening quote; acc the decoded
\* characters so far.  Characters are copied up to j, the next quote,
\* backslash or control character.
RECURSIVE scanstring(_, _, _)
scanstring_upto(s, i, acc, j) ==
  IF j > Len(s) THEN JsonFail
  ELSE IF Char(s, j) = "\"" THEN JsonOk(PyStr(acc \o SubSeq(s, i, j - 1)), j + 1)
  ELSE IF Char(s, j) \in ControlChars THEN JsonFail
  ELSE IF j + 1 > Len(s) THEN JsonFail
  ELSE CASE Char(s, j + 1) = "\"" ->
              scanstring(s, j + 2, acc \o SubSeq(s, i, j - 1) \o "\"")
         [] Char(s, j + 1) = "\\" ->
              scanstring(s, j + 2, acc \o SubSeq(s, i, j - 1) \o "\\")
         [] Char(s, j + 1) = "/" ->
              scanstring(s, j + 2, acc \o SubSeq(s, i, j - 1) \o "/")
         [] Char(s, j + 1) = "n" ->
              scanstring(s, j + 2, acc \o SubSeq(s, i, j - 1) \o "\n")
         [] Char(s, j + 1) = "t" ->
              scanstring(s, j + 2, acc \o SubSeq(s, i, j - 1) \o "\t")
         [] OTHER -> JsonFail

scanstring(s, i, acc) ==
  scanstring_upto(s, i, acc, FirstIn(s, i, {"\"", "\\"} \cup ControlChars))

RECURSIVE scan_digits(_, _, _)
scan_digits(s, i, acc) ==
  IF i <= Len(s) /\ Char(s, i) \in Digits
  THEN scan_digits(s, i + 1, 10 * acc + DigitValue(Char(s, i)))
  ELSE [n |-> acc, end |-> i]

\* NUMBER_RE, integer part: -?(0|[1-9][0-9]*); neg: a sign precedes j
scan_integer(s, j, neg) ==
  IF j > Len(s) \/ Char(s, j) \notin Digits THEN JsonFail
  ELSE IF Char(s, j) = "0" THEN JsonOk(PyInt(0), j + 1)
  ELSE JsonOk(PyInt(IF neg THEN 0 - scan_digits(s, j, 0).n
                           ELSE scan_digits(s, j, 0).n),
              scan_digits(s, j, 0).end)

scan_number(s, i) ==
  IF i <= Len(s) /\ Char(s, i) = "-"
  THEN scan_integer(s, i + 1, TRUE)
  ELSE scan_integer(s, i, FALSE)

RECURSIVE scan_once(_, _)
RECURSIVE scan_object(_, _, _)
RECURSIVE scan_array(_, _, _)

\* JSONObject, after the value v of key k: n is at the next token
object_next(s, d, n) ==
  IF n > Len(s) THEN JsonFail
  ELSE IF Char(s, n) = "}" THEN JsonOk(PyDict(d), n + 1)
  ELSE IF Char(s, n) = "," THEN scan_object(s, skip_ws(s, n + 1), d)
  ELSE JsonFail

object_value(s, d, k, v) ==
  IF ~v.ok THEN JsonFail
  ELSE object_next(s, (k.value.s :> v.value) @@ d, skip_ws(s, v.end))

\* JSONObject, after the key k: c is at the colon
object_colon(s, d, k, c) ==
  IF c > Len(s) \/ Char(s, c) # ":" THEN JsonFail
  ELSE object_value(s, d, k, scan_once(s, skip_ws(s, c + 1)))

object_key(s, d, k) ==
  IF ~k.ok THEN JsonFail ELSE object_colon(s, d, k, skip_ws(s, k.end))

\* JSONObject: i is at the opening quote of the next key; d the pairs so far
scan_object(s, i, d) ==
  IF i > Len(s) \/ Char(s, i) # "\"" THEN JsonFail
  ELSE object_key(s, d, scanstring(s, i + 1, ""))

\* JSONArray, after an element: n is at the next token
array_next(s, a, n) ==
  IF n > Len(s) THEN JsonFail
  ELSE IF Char(s, n) = "]" THEN JsonOk(PyList(a), n + 1)
  ELSE IF Char(s, n) = "," THEN scan_array(s, skip_ws(s, n + 1), a)
  ELSE JsonFail

array_value(s, a, v) ==
  IF ~v.ok THEN JsonFail
  ELSE array_next(s, Append(a, v.value), skip_ws(s, v.end))

\* JSONArray: i is at the start of the next element; a the elements so far
scan_array(s, i, a) == array_value(s, a, scan_once(s, i))

\* the first token after an opening brace (bracket) is at j
object_open(s, j) ==
  IF j <= Len(s) /\ Char(s, j) = "}" THEN JsonOk(PyDict(<<>>), j + 1)
  ELSE scan_object(s, j, <<>>)

array_open(s, j) ==
  IF j <= Len(s) /\ Char(s, j) = "]" THEN JsonOk(PyList(<<>>), j + 1)
  ELSE scan_array(s, j, <<>>)

scan_token(s, i, c) ==
  CASE c = "\"" -> scanstring(s, i + 1, "")
    [] c = "{" -> object_open(s, skip_ws(s, i + 1))
    [] c = "[" -> array_open(s, skip_ws(s, i + 1))
    [] c = "n" /\ StartsWithAt(s, i, "null") -> JsonOk(None, i + 4)
    [] c = "t" /\ StartsWithAt(s, i, "true") -> JsonOk(PyBool(TRUE), i + 4)
    [] c = "f" /\ StartsWithAt(s, i, "false") -> JsonOk(PyBool(FALSE), i + 5)
    [] c \in Digits \/ (c = "-" /\ ~StartsWithAt(s, i, "-Infinity")) ->
         scan_number(s, i)
    [] c = "N" /\ StartsWithAt(s, i, "NaN") -> JsonOk(PyFloat("nan"), i + 3)
    [] c = "I" /\ StartsWithAt(s, i, "Infinity") -> JsonOk(PyFloat("inf"), i + 8)
    [] c = "-" /\ StartsWithAt(s, i, "-Infinity") -> JsonOk(PyFloat("-inf"), i + 9)
    [] OTHER -> JsonFail

scan_once(s, i) == IF i > Len(s) THEN JsonFail ELSE scan_token(s, i, Char(s, i))

\* JSONDecoder.decode: leading whitespace, one value, trailing whitespace,
\* nothing else.  ok = FALSE is json.JSONDecodeError.
decode_end(s, r) ==
  IF r.ok /\ skip_ws(s, r.end) = Len(s) + 1
  THEN [ok |-> TRUE, value |-> r.value]
  ELSE [ok |-> FALSE, value |-> None]

json_loads(s) == decode_end(s, scan_once(s, skip_ws(s, 1)))

\* ------------------------------------------------------------------------
\* Inputs of the model
\* ------------------------------------------------------------------------
\* what the user may have typed into the text area
UserTexts == {"", " \n ", " I feel anxious about tomorrow\n"}

\* values of GEMINI_API_KEY in the environment ("" is unset) and of the
\* sidebar key field
EnvKeys == {"", "env-key"}
TypedKeys == {"", "typed-key"}

\* texts model.generate_content may return
Responses ==
  { Fence \o "json\n{\"emotion_detected\":\"anxiety\",\"summary\":\"s\",\"advice\":\"a\"}\n" \o Fence,
    "{\"summary\":\"s\"}",
    "I think you feel okay.",
    Fence \o "json\n{\"emotion_detected\": calm}\n" \o Fence,
    "{}",
    "null",
    "7",
    "[\"summary\"]",
    "\"emotion_detected\"",
    "\"fine\"" }

\* messages of the exceptions model.generate_content may raise
ErrorMessages == {"429 quota exceeded", "503 unavailable"}

NoCall == [called |-> FALSE, raised |-> FALSE, text |-> ""]
Returned(t) == [called |-> TRUE, raised |-> FALSE, text |-> t]
Raised(m) == [called |-> TRUE, raised |-> TRUE, text |-> m]
RemoteOutcomes ==
  {Returned(t) : t \in Responses} \cup {Raised(m) : m \in ErrorMessages}

\* ------------------------------------------------------------------------
\* src/GUI_streamlit.py
\* ------------------------------------------------------------------------
VARIABLES
  env_api_key,       \* os.getenv("GEMINI_API_KEY"), "" when unset
  sidebar_api_key,   \* value of the sidebar text_input
  user_input,        \* value of the text area
  journal_history,   \* st.session_state.journal_history
  clock,             \* datetime.now(), in seconds
  widgets_rendered,  \* the last run rendered the text area and the buttons
  ui_button,         \* the button whose click caused the last run
  ui_remote,         \* the remote call of the last run
  ui_shown,          \* what the last run displayed
  n_actions,         \* save/analyze runs since the history was last empty
  n_reported_ok,     \* those of them that reported success
  \* src/app.py
  cli_pc,            \* "prompt" (at input()), "ended" (after break), "crashed"
  cli_input,         \* the line input() returned last
  cli_remote,        \* the remote call of the last iteration
  cli_out,           \* what the last iteration printed
  cli_lines,         \* lines read so far
  cli_calls,         \* remote calls made so far
  \* the response cleanup of both front ends on one response text
  norm_inner,        \* the content inside the fences
  norm_wrap,         \* how the response wraps it
  norm_raw,          \* the response text
  norm_ui,           \* what the UI made of it
  norm_cli           \* what the CLI made of it

cli_vars == <<cli_pc, cli_input, cli_remote, cli_out, cli_lines, cli_calls>>

norm_vars == <<norm_inner, norm_wrap, norm_raw, norm_ui, norm_cli>>

ui_vars ==
  <<env_api_key, sidebar_api_key, user_input, journal_history, clock,
    widgets_rendered, ui_button, ui_remote, ui_shown, n_actions,
    n_reported_ok>>

DisplayKeys == <<"emotion_detected", "summary", "advice">>

Shown(kind, fields, text) == [kind |-> kind, fields |-> fields, text |-> text]

\* (variant: `if api_key is not None`, which an empty key field passes)
load_api_key_not_none(env_key, typed_key) == TRUE

\* load_api_key: TRUE iff a key is configured
load_api_key(env_key, typed_key) ==
  LET api_key == IF env_key = "" THEN typed_key ELSE env_key
  IN api_key # ""

\* (variant: `if user_input:`, without the strip)
HasContent_unstripped(text) == text # ""

\* truth of user_input.strip()
HasContent(text) == strip(text) # ""

\* get_ai_response: the pair (response_json, error)
\* (variant: the failure path returns the cleaned text)
parse_response_cleaned(raw_text, r) ==
  IF r.ok
  THEN [response_json |-> r.value, error |-> None]
  ELSE [response_json |-> None, error |-> PyStr(strip(re_sub_fences(raw_text)))]

parse_response(raw_text, r) ==
  IF r.ok
  THEN [response_json |-> r.value, error |-> None]
  ELSE [response_json |-> None, error |-> PyStr(raw_text)]

clean_text(raw_text) == strip(re_sub_fences(raw_text))

get_ai_response(remote) ==
  IF remote.raised
  THEN [response_json |-> None, error |-> PyStr("Error: " \o remote.text)]
  ELSE parse_response(remote.text, json_loads(clean_text(remote.text)))

\* `key in v` and `v[key]` for a str key: "shown" when the field is
\* displayed, "absent" when `in` is False, "TypeError" when either raises.
DisplayField(v, key) ==
  CASE v.type = "dict" -> IF key \in DOMAIN v.d THEN "shown" ELSE "absent"
    [] v.type = "str" -> IF IsSubstring(key, v.s) THEN "TypeError" ELSE "absent"
    [] v.type = "list" ->
         IF \E i \in 1..Len(v.items) : v.items[i] = PyStr(key)
         THEN "TypeError" ELSE "absent"
    [] OTHER -> "TypeError"

\* the Analyze branch's display of (response_json, error)
AnalyzeDisplay(res) ==
  IF Truthy(res.response_json)
  THEN IF \E i \in 1..Len(DisplayKeys) :
            DisplayField(res.response_json, DisplayKeys[i]) = "TypeError"
       THEN Shown("TypeError", {}, None)
       ELSE Shown("success",
                  {DisplayKeys[i] : i \in
                     {j \in 1..Len(DisplayKeys) :
                        DisplayField(res.response_json, DisplayKeys[j]) = "shown"}},
                  None)
  ELSE Shown("unexpected", {}, res.error)

Entry(ts, text, analysis) ==
  [timestamp |-> ts, entry |-> text, analysis |-> analysis]

\* (variants: insert(0, entry); an append that is lost)
AppendEntry_front(history, e) == <<e>> \o history
AppendEntry_lost(history, e) == history

\* journal_history.append(entry)
AppendEntry(history, e) == Append(history, e)

\* journal_history = []
ClearHistory(history) == <<>>

\* the Analyze branch once get_ai_response has returned res, with the display
\* AnalyzeDisplay(res) = out
analyze_shown(text, res, out) ==
  /\ ui_shown' = out
  /\ IF out.kind = "success"
     THEN /\ journal_history' =
               AppendEntry(journal_history, Entry(clock, text, res.response_json))
          /\ n_reported_ok' = n_reported_ok + 1
     ELSE UNCHANGED <<journal_history, n_reported_ok>>

analyze_entry(text, res) == analyze_shown(text, res, AnalyzeDisplay(res))

\* One run of main() with the widget values typed_key and text, caused by a
\* click on `button` ("none": a widget value changed); `remote` is what the
\* remote call does if the run makes it.
main(button, typed_key, text, remote) ==
  /\ sidebar_api_key' = typed_key
  /\ ui_button' = button
  /\ UNCHANGED <<env_api_key, clock, cli_vars, norm_vars>>
  /\ IF ~load_api_key(env_api_key, typed_key)
     THEN /\ ui_shown' = Shown("gate", {}, None)
          /\ widgets_rendered' = FALSE
          /\ user_input' = ""   \* a widget that is not rendered loses its value
          /\ ui_remote' = NoCall
          /\ UNCHANGED <<journal_history, n_actions, n_reported_ok>>
     ELSE
       /\ widgets_rendered' = TRUE
       /\ user_input' = text
       /\ CASE button = "clear" ->
                 \* st.rerun(): the script runs again with no button pressed
                 /\ journal_history' = ClearHistory(journal_history)
                 /\ ui_shown' = Shown("none", {}, None)
                 /\ ui_remote' = NoCall
                 /\ n_actions' = 0
                 /\ n_reported_ok' = 0
            [] button = "save" ->
                 /\ ui_remote' = NoCall
                 /\ n_actions' = n_actions + 1
                 /\ IF HasContent(text)
                    THEN /\ journal_history' =
                              AppendEntry(journal_history, Entry(clock, text, None))
                         /\ ui_shown' = Shown("saved", {}, None)
                         /\ n_reported_ok' = n_reported_ok + 1
                    ELSE /\ ui_shown' = Shown("warn_save", {}, None)
                         /\ UNCHANGED <<journal_history, n_reported_ok>>
            [] button = "analyze" ->
                 /\ n_actions' = n_actions + 1
                 /\ IF HasContent(text)
                    THEN /\ ui_remote' = remote
                         /\ analyze_entry(text, get_ai_response(remote))
                    ELSE /\ ui_remote' = NoCall
                         /\ ui_shown' = Shown("warn_analyze", {}, None)
                         /\ UNCHANGED <<journal_history, n_reported_ok>>
            [] OTHER ->
                 /\ ui_shown' = Shown("none", {}, None)
                 /\ ui_remote' = NoCall
                 /\ UNCHANGED <<journal_history, n_actions, n_reported_ok>>

\* the state after the first run of the script in a new session
UIInit ==
  /\ env_api_key \in EnvKeys
  /\ sidebar_api_key = ""
  /\ user_input = ""
  /\ journal_history = <<>>
  /\ clock = 0
  /\ widgets_rendered = load_api_key(env_api_key, "")
  /\ ui_button = "none"
  /\ ui_remote = NoCall
  /\ ui_shown = IF load_api_key(env_api_key, "")
                THEN Shown("none", {}, None) ELSE Shown("gate", {}, None)
  /\ n_actions = 0
  /\ n_reported_ok = 0

\* the user edits the sidebar key field (rendered only when the environment
\* has no key)
TypeKey ==
  /\ env_api_key = ""
  /\ \E k \in TypedKeys \ {sidebar_api_key} : main("none", k, user_input, NoCall)

\* the user edits the text area
EditText ==
  /\ widgets_rendered
  /\ \E t \in UserTexts \ {user_input} : main("none", sidebar_api_key, t, NoCall)

ClickClear ==
  /\ widgets_rendered
  /\ main("clear", sidebar_api_key, user_input, NoCall)

ClickSave ==
  /\ widgets_rendered
  /\ n_actions < MaxActions
  /\ main("save", sidebar_api_key, user_input, NoCall)
  /\ Len(journal_history') <= MaxHist

ClickAnalyze ==
  /\ widgets_rendered
  /\ n_actions < MaxActions
  /\ \E remote \in RemoteOutcomes :
       main("analyze", sidebar_api_key, user_input, remote)
  /\ Len(journal_history') <= MaxHist

\* a second passes
Tick ==
  /\ clock < MaxClock
  /\ clock' = clock + 1
  /\ UNCHANGED <<env_api_key, sidebar_api_key, user_input, journal_history,
                 widgets_rendered, ui_button, ui_remote, ui_shown, n_actions,
                 n_reported_ok, cli_vars, norm_vars>>

UINext ==
  TypeKey \/ EditText \/ ClickClear \/ ClickSave \/ ClickAnalyze \/ Tick

\* ------------------------------------------------------------------------
\* src/app.py
\* ------------------------------------------------------------------------
\* lines the user may enter at the prompt
CliInputs == {"exit", "EXIT", "Exit", "exit ", "", "I feel anxious about tomorrow"}

Printed(kind, value) == [kind |-> kind, value |-> value]

\* (variant: the comparison without lower())
IsSentinel_exact(line) == line = "exit"

\* user_input.lower() == "exit"
IsSentinel(line) == lower(line) = "exit"

\* the cleanup, parse and print of a response the call returned
cli_print_parsed(raw_text, r) ==
  IF r.ok
  THEN Printed("insight", r.value)
  ELSE Printed("raw", PyStr(raw_text))

cli_clean_text(raw_text) == strip(re_sub_fences(raw_text))

cli_print_response(raw_text) ==
  cli_print_parsed(raw_text, json_loads(cli_clean_text(raw_text)))

\* the state at the first prompt
CLIInit ==
  /\ cli_pc = "prompt"
  /\ cli_input = ""
  /\ cli_remote = NoCall
  /\ cli_out = Printed("banner", None)
  /\ cli_lines = 0
  /\ cli_calls = 0

\* one iteration of the while loop: input() returns `line`
CliIteration ==
  /\ cli_pc = "prompt"
  /\ cli_lines < MaxLines
  /\ \E line \in CliInputs, remote \in RemoteOutcomes :
       /\ cli_input' = line
       /\ cli_lines' = cli_lines + 1
       /\ IF IsSentinel(line)
          THEN /\ cli_out' = Printed("farewell", None)
               /\ cli_pc' = "ended"
               /\ cli_remote' = NoCall
               /\ UNCHANGED cli_calls
          ELSE /\ cli_remote' = remote
               /\ cli_calls' = cli_calls + 1
               /\ IF remote.raised
                  THEN \* nothing catches the exception: the process ends
                       /\ cli_out' = Printed("traceback", PyStr(remote.text))
                       /\ cli_pc' = "crashed"
                  ELSE /\ cli_out' = cli_print_response(remote.text)
                       /\ cli_pc' = "prompt"
  /\ UNCHANGED <<ui_vars, norm_vars>>

CLINext == CliIteration

\* ------------------------------------------------------------------------
\* The response cleanup of both front ends, on every response text that
\* wraps a content of at most MaxInner characters
\* ------------------------------------------------------------------------
InnerAlphabet == {Backtick, "\"", "{", "}", "1"}

RECURSIVE TextsOfLen(_)
TextsOfLen(n) ==
  IF n = 0 THEN {""}
  ELSE {t \o c : t \in TextsOfLen(n - 1), c \in InnerAlphabet}

InnerTexts == UNION {TextsOfLen(n) : n \in 0..MaxInner}

Wraps == {"bare", "fenced", "fenced_lines"}

WrapText(wrap, inner) ==
  CASE wrap = "bare" -> inner
    [] wrap = "fenced" -> FenceJson \o inner \o Fence
    [] wrap = "fenced_lines" -> FenceJson \o "\n" \o inner \o "\n" \o Fence

Pending == [done |-> FALSE]

NormInit ==
  /\ norm_inner \in InnerTexts
  /\ norm_wrap \in Wraps
  /\ norm_raw = WrapText(norm_wrap, norm_inner)
  /\ norm_ui = Pending
  /\ norm_cli = Pending

NormUIResult(res) == [done |-> TRUE, res |-> res, shown |-> AnalyzeDisplay(res)]

\* the UI receives norm_raw as the response to an analyze action
NormUI ==
  /\ norm_ui = Pending
  /\ norm_ui' = NormUIResult(get_ai_response(Returned(norm_raw)))
  /\ UNCHANGED <<norm_inner, norm_wrap, norm_raw, norm_cli, ui_vars, cli_vars>>

\* the CLI receives norm_raw as the response to an entry
NormCLI ==
  /\ norm_cli = Pending
  /\ norm_cli' = [done |-> TRUE, out |-> cli_print_response(norm_raw)]
  /\ UNCHANGED <<norm_inner, norm_wrap, norm_raw, norm_ui, ui_vars, cli_vars>>

NormNext == NormUI \/ NormCLI

\* ------------------------------------------------------------------------
\* Specifications
\* ------------------------------------------------------------------------
vars == <<ui_vars, cli_vars, norm_vars>>

UIIdle == UIInit /\ env_api_key = "env-key"
CLIIdle == CLIInit
NormIdle ==
  /\ norm_inner = ""
  /\ norm_wrap = "bare"
  /\ norm_raw = ""
  /\ norm_ui = Pending
  /\ norm_cli = Pending

\* the Streamlit session
Init == UIInit /\ CLIIdle /\ NormIdle
Next == UINext
Spec == Init /\ [][Next]_vars

\* the command-line loop
InitCLI == UIIdle /\ CLIInit /\ NormIdle
SpecCLI == InitCLI /\ [][CLINext]_vars

\* the response cleanup on generated response texts
InitNorm == UIIdle /\ CLIIdle /\ NormInit
SpecNorm == InitNorm /\ [][NormNext]_vars

\* ------------------------------------------------------------------------
\* Claims
\* ------------------------------------------------------------------------
FencedBrokenJson == Fence \o "json\n{\"emotion_detected\": calm}\n" \o Fence
LastEntry == journal_history[Len(journal_history)]
HasNonWhitespace(text) == \E j \in 1..Len(text) : Char(text, j) \notin StripChars
NoCredential == env_api_key = "" /\ sidebar_api_key = ""

\* C1 (as stated): from an empty history and with no clear in between,
\* after N save or analyze actions the history length equals N.
C1_LengthEqualsActions == Len(journal_history) = n_actions

\* C1 (amended): after N save or analyze actions since the history was last
\* empty (start or clear), the history length equals the number of those
\* actions that reported success, and is at most N.
C1_LengthEqualsSuccesses ==
  /\ Len(journal_history) = n_reported_ok
  /\ Len(journal_history) <= n_actions

\* three actions, one of which appended nothing
C1_Witness == n_actions = 3 /\ Len(journal_history) = 2

\* C2: in both front ends a failure of the remote generation call is
\* caught and shown as an error message, and the front end then accepts the
\* next action (the CLI is back at its prompt).
C2_RemoteFailureIsSurvived ==
  /\ cli_remote.raised => (cli_pc = "prompt" /\ cli_out.kind = "error")
  /\ ui_remote.raised =>
       /\ ui_shown = Shown("unexpected", {}, PyStr("Error: " \o ui_remote.text))
       /\ widgets_rendered

\* C3: in the UI, an analyze action on non-blank text whose response is
\* valid JSON after cleanup takes the success path and appends one record
\* whose analysis is the decoded value.
C3_ValidJsonSucceeds ==
  \A r \in {json_loads(strip(re_sub_fences(ui_remote.text)))} :
    (/\ ui_button = "analyze"
     /\ ui_remote.called
     /\ ~ui_remote.raised
     /\ r.ok)
    => /\ ui_shown.kind = "success"
       /\ Len(journal_history) > 0
       /\ LastEntry.entry = user_input
       /\ LastEntry.analysis = r.value

\* C4: in the UI, an analyze action whose response is not valid JSON after
\* cleanup yields (None, the response text as received), shows that text
\* under the unexpected-format indicator and leaves the history unchanged.
C4_DecodeFailureShowsRaw ==
  [][\A remote \in {ui_remote'} :
       (/\ ui_button' = "analyze"
        /\ remote.called
        /\ ~remote.raised
        /\ ~json_loads(strip(re_sub_fences(remote.text))).ok)
       => /\ get_ai_response(remote) =
               [response_json |-> None, error |-> PyStr(remote.text)]
          /\ ui_shown' = Shown("unexpected", {}, PyStr(remote.text))
          /\ journal_history' = journal_history]_vars

\* a fenced response that does not decode is shown with its fences, and the
\* entry already in the history is still the only one
C4_Witness ==
  /\ ui_button = "analyze"
  /\ ui_remote = Returned(FencedBrokenJson)
  /\ ui_shown = Shown("unexpected", {}, PyStr(FencedBrokenJson))
  /\ Len(journal_history) = 1

\* C5 (as stated): for a response that wraps valid JSON content in JSON
\* fence markers, both front ends decode successfully to the value of the
\* content alone.
C5_FencedDecodesToInner ==
  \A inner \in {json_loads(norm_inner)} :
    (/\ norm_wrap # "bare"
     /\ inner.ok
     /\ norm_ui # Pending
     /\ norm_cli # Pending)
    => /\ norm_ui.res = [response_json |-> inner.value, error |-> None]
       /\ norm_cli.out = Printed("insight", inner.value)

\* C5 (amended): for such a response both front ends decode successfully;
\* the value is that of the content alone whenever the content holds no
\* run of three backticks (such a run inside a string value is removed
\* with the fence markers).
C5_FencedDecodes ==
  \A inner \in {json_loads(norm_inner)} :
    (/\ norm_wrap # "bare"
     /\ inner.ok
     /\ norm_ui # Pending
     /\ norm_cli # Pending)
    => /\ norm_ui.res.error = None
       /\ norm_cli.out.kind = "insight"
       /\ ~IsSubstring(Fence, norm_inner) =>
            /\ norm_ui.res.response_json = inner.value
            /\ norm_cli.out.value = inner.value

\* the content is the JSON string of three backticks: decoded as ""
C5_Witness ==
  /\ norm_wrap = "fenced_lines"
  /\ norm_inner = "\"" \o Fence \o "\""
  /\ norm_ui # Pending
  /\ norm_cli # Pending
  /\ norm_ui.res = [response_json |-> PyStr(""), error |-> None]
  /\ norm_cli.out = Printed("insight", PyStr(""))

\* C6: every step leaves the history unchanged, or appends exactly one
\* record at its end, or (the clear action) empties it; after a clear
\* action the history is empty.
C6_HistoryTransitions ==
  [][/\ \/ journal_history' = journal_history
        \/ /\ Len(journal_history') = Len(journal_history) + 1
           /\ SubSeq(journal_history', 1, Len(journal_history)) = journal_history
        \/ /\ ui_button' = "clear"
           /\ Len(journal_history') = 0
     /\ ui_button' = "clear" => Len(journal_history') = 0]_vars

\* a saved entry followed by an analysed one, in that order
C6_Witness ==
  /\ Len(journal_history) = 2
  /\ journal_history[1].analysis = None
  /\ journal_history[2].analysis # None

\* C7: while no credential is available every run shows the missing-key
\* message and renders no action: no remote call, history unchanged; with a
\* credential the actions are rendered.
C7_CredentialGate ==
  [][/\ NoCredential' =>
          /\ ui_shown'.kind = "gate"
          /\ ~widgets_rendered'
          /\ ~ui_remote'.called
          /\ journal_history' = journal_history
     /\ ~NoCredential' =>
          /\ ui_shown'.kind # "gate"
          /\ widgets_rendered']_vars

\* the key was removed after an entry was stored: the gate is shown and the
\* entry is still there
C7_Witness ==
  /\ NoCredential
  /\ ui_shown.kind = "gate"
  /\ Len(journal_history) > 0

\* C8 (as stated): the CLI loop ends on the input "exit" and on no other
\* input; that input makes no remote call; every other line makes exactly
\* one remote call whose result is shown before the next prompt.
C8_ExitOnlyOnSentinel ==
  /\ cli_pc # "prompt" <=> (cli_lines > 0 /\ cli_input = "exit")
  /\ (cli_lines > 0 /\ cli_input = "exit") => ~cli_remote.called
  /\ (cli_lines > 0 /\ cli_input # "exit") =>
       /\ cli_remote.called
       /\ cli_out.kind \in {"insight", "raw"}
       /\ cli_pc = "prompt"

\* C8 (amended): the loop ends with the farewell exactly on a line that
\* equals "exit" ignoring case, and that line makes no remote call; every
\* other line makes exactly one remote call; when the call returns, its
\* result is shown and the loop prompts again; when it raises, the process
\* ends with the exception.
C8_ExitOnSentinelAnyCase ==
  /\ cli_pc = "ended" <=> (cli_lines > 0 /\ lower(cli_input) = "exit")
  /\ cli_pc = "ended" => (~cli_remote.called /\ cli_out.kind = "farewell")
  /\ cli_calls = cli_lines - (IF cli_pc = "ended" THEN 1 ELSE 0)
  /\ (cli_lines > 0 /\ lower(cli_input) # "exit") =>
       /\ cli_remote.called
       /\ ~cli_remote.raised =>
            (cli_pc = "prompt" /\ cli_out.kind \in {"insight", "raw"})
       /\ cli_remote.raised =>
            (cli_pc = "crashed" /\ cli_out.kind = "traceback")

\* two entries analysed, then "EXIT"
C8_Witness ==
  /\ cli_pc = "ended"
  /\ cli_input = "EXIT"
  /\ cli_lines = 3
  /\ cli_calls = 2

\* C9: for every response text the two front ends agree: both take the
\* success path exactly when the cleaned text is valid JSON, and both show
\* the raw text with an error indicator exactly when decoding failed.
C9_SameClassification ==
  \A r \in {json_loads(strip(re_sub_fences(norm_raw)))} :
    (norm_ui # Pending /\ norm_cli # Pending) =>
      /\ norm_ui.shown.kind = "success" <=> r.ok
      /\ norm_cli.out.kind = "insight" <=> r.ok
      /\ norm_ui.shown = Shown("unexpected", {}, PyStr(norm_raw)) <=> ~r.ok
      /\ norm_cli.out = Printed("raw", PyStr(norm_raw)) <=> ~r.ok

\* C10: a save or analyze action on blank text makes no remote call and
\* appends nothing; every record's entry text has a non-whitespace
\* character, and its analysis is None or a value decoded from a response,
\* never a response text or an error string.
C10_RecordsWellFormed ==
  /\ [](/\ (ui_button \in {"save", "analyze"} /\ ~HasNonWhitespace(user_input)) =>
            /\ ~ui_remote.called
            /\ ui_shown.kind \in {"warn_save", "warn_analyze"}
        /\ \A i \in 1..Len(journal_history) :
             /\ HasNonWhitespace(journal_history[i].entry)
             /\ \/ journal_history[i].analysis = None
                \/ \E r \in Responses :
                     json_loads(strip(re_sub_fences(r))) =
                       [ok |-> TRUE, value |-> journal_history[i].analysis]
             /\ \A r \in Responses : journal_history[i].analysis # PyStr(r)
             /\ \A m \in ErrorMessages :
                  journal_history[i].analysis # PyStr("Error: " \o m))
  /\ [][(ui_button' \in {"save", "analyze"} /\ ~HasNonWhitespace(user_input'))
        => journal_history' = journal_history]_vars

\* a blank analyze after two records were stored
C10_Witness ==
  /\ ui_button = "analyze"
  /\ user_input = " \n "
  /\ ui_shown.kind = "warn_analyze"
  /\ Len(journal_history) = 2
====
